---- MODULE Spec2Model ----
(***************************************************************************)
(* heap_z (src/heap.h): a fixed-pool memory manager.  The pool is modelled *)
(* as the byte-addressed memory it is: a function from the addresses of    *)
(* its 32-bit words to the values they hold.  A memory control block (mcb) *)
(* is three consecutive words, read and written through the field          *)
(* accessors below.  Within one call every word keeps what the code wrote  *)
(* to it; between calls the model keeps a value only for the words of the  *)
(* headers in the list.  Every other word of the pool (the usable areas,   *)
(* which their owners write at will, and the bytes of free areas) holds    *)
(* Junk: a value the model does not know.                                  *)
(*                                                                         *)
(* Target: 32-bit; int, pointers and size_t are 4 bytes wide.  A 32-bit     *)
(* word is modelled by its two's-complement value (-2^31 .. 2^31-1), on    *)
(* which +, - and the low-bit masks agree with the machine's arithmetic    *)
(* modulo 2^32; unsigned comparisons go through ULess.                     *)
(***************************************************************************)
EXTENDS Integers, Sequences, FiniteSets

\* ---------------------------------------------------------------- bounds
PoolWords == 17         \* the pool is int pool[PoolWords]
MaxRequest == 4         \* malloc() is called with sizes up to MaxRequest and
                        \* with the size that fills a fresh pool
ExtWords == 6           \* add() is called with a region of ExtWords ints
NumThreads == 2         \* the callers of SpecThreads
MaxCalls == 4           \* the calls the callers of SpecThreads make in all
ScanWords == 22         \* SpecScan: the pool is int pool[ScanWords]

\* ------------------------------------------------------ program constants
HEAP_ALIGN == 4         \* sizeof(int)
PTR_SIZE == 4           \* sizeof(mcb *)
MCB_SIZE == 12          \* sizeof(mcb): next, prev, ts
FREE == 0
ALLOCATED == 1
USE_FULL_SCAN_mutant == FALSE   \* a build in first-fit mode
USE_FULL_SCAN == TRUE
NULL == 0
TYPE_RANGE == 256       \* ts.type : 8
SIZE_RANGE == 16777216  \* ts.size : 24
SIZE_SIGN == 8388608    \* the top bit of ts.size, the sign bit of the ts word

\* where the linker put the pool, and its size in bytes (sizeof(pool))
PoolBase == 8 * HEAP_ALIGN
PoolBytes == PoolWords * HEAP_ALIGN
PoolEnd == PoolBase + PoolBytes
PoolAddrs == {PoolBase + HEAP_ALIGN * i : i \in 0..(PoolWords - 1)}

VARIABLES
    mem,        \* the pool's words: [PoolAddrs -> Int]
    start,      \* heap::start
    freemem,    \* heap::freemem
    live,       \* history: the results of malloc not yet given to free, with
                \* the size asked for: a set of [ptr, n]
    last,       \* history: what the last call did
    pc,         \* SpecThreads: where each caller is in the call it makes
    lock,       \* SpecThreads: heap::Guard, 0 or the caller that locked it
    ret,        \* SpecThreads: history: the call that returned last, with the
                \* lock() and unlock() calls it made on heap::Guard
    calls       \* SpecThreads: history: the calls made so far

vars == <<mem, start, freemem, live, last, pc, lock, ret, calls>>

\* the callers, and what one call at a time (Spec, SpecExtend) leaves alone
Threads == 1..NumThreads
callers == <<pc, lock, ret, calls>>
Idle == [op |-> "idle", arg |-> 0, at |-> "idle", locks |-> 0]

\* a < b on size_t, uintptr_t and pointers: a negative value stands for a
\* word with the top bit set
ULess(a, b) == IF (a < 0) = (b < 0) THEN a < b ELSE b < 0
ULeq(a, b) == a = b \/ ULess(a, b)

\* ------------------------------------------------------------ raw memory
\* A word whose value the model does not know.  No header field the program
\* writes has this value (it reads as type 255).
Junk == 0 - 1

\* A heap value: the pool's words and the two heap descriptors.  wild is the
\* value that a read outside the pool, or of a Junk word, yields: the program
\* reads whatever is there.
Heap(m, s, f, w) == [mem |-> m, start |-> s, freemem |-> f, wild |-> w]

InPool(h, a) == a \in DOMAIN h.mem

\* the word at a is in the pool and the model knows its value
Known(h, a) == InPool(h, a) /\ h.mem[a] # Junk

Rd(h, a) == IF Known(h, a) THEN h.mem[a] ELSE h.wild

\* a write outside the pool does not change the pool
Wr(h, a, v) == IF InPool(h, a) THEN [h EXCEPT !.mem[a] = v] ELSE h

\* ------------------------------------------------------------ struct mcb
next(h, a) == Rd(h, a)
prev(h, a) == Rd(h, a + PTR_SIZE)
ts(h, a) == Rd(h, a + 2 * PTR_SIZE)
ts_type(h, a) == ts(h, a) % TYPE_RANGE
ts_size(h, a) == (ts(h, a) \div TYPE_RANGE) % SIZE_RANGE

set_next(h, a, v) == Wr(h, a, v)
set_prev(h, a, v) == Wr(h, a + PTR_SIZE, v)
\* the ts word of a type and a size, each cut to its bit-field
TsWord(t, s) ==
    LET s24 == s % SIZE_RANGE
    IN  (t % TYPE_RANGE)
          + TYPE_RANGE * (IF s24 >= SIZE_SIGN THEN s24 - SIZE_RANGE ELSE s24)

set_type(h, a, t) == Wr(h, a + 2 * PTR_SIZE, TsWord(t, ts_size(h, a)))
set_size(h, a, s) == Wr(h, a + 2 * PTR_SIZE, TsWord(ts_type(h, a), s))

\* void * pool() { return this + 1; }
pool(a) == a + MCB_SIZE

\* the three words of the header at a lie in the pool
McbInPool(h, a) == /\ InPool(h, a)
                   /\ InPool(h, a + PTR_SIZE)
                   /\ InPool(h, a + 2 * PTR_SIZE)

\* ... and the model knows their values
McbKnown(h, a) == /\ Known(h, a)
                  /\ Known(h, a + PTR_SIZE)
                  /\ Known(h, a + 2 * PTR_SIZE)

McbWords(a) == {a, a + PTR_SIZE, a + 2 * PTR_SIZE}

\* --------------------------------------------------------------- init()
init(h, pstart, size_bytes) ==
    LET h1 == set_next(h, pstart, pstart)
        h2 == set_prev(h1, pstart, pstart)
        h3 == set_size(h2, pstart, size_bytes - MCB_SIZE)
    IN  set_type(h3, pstart, FREE)

\* heap(int (&pool)[size_items]): start and freemem at the pool, then init()
heap_ctor(base, size_bytes) ==
    LET words == {base + HEAP_ALIGN * i : i \in 0..((size_bytes \div HEAP_ALIGN) - 1)}
        h0 == Heap([a \in words |-> Junk], base, base, 0)
    IN  init(h0, h0.start, size_bytes)

\* ------------------------------------------------------------ mutants
\* The definitions named *_mutant are not the program: each is the definition
\* that follows it with one plausible slip, used to see that a claim's formula
\* tells the program from the slip.

\* ------------------------------------------------------- mcb::split()
\* split() that leaves the prev of the chunk after the new one as it was
split_mutant(h, this, size) ==
    LET new_mcb == this + size
        h1 == set_next(h, new_mcb, next(h, this))
        h2 == set_prev(h1, new_mcb, this)
        h3 == set_size(h2, new_mcb, ts_size(h2, this) - size)
        h4 == set_type(h3, new_mcb, FREE)
        h5 == set_next(h4, this, new_mcb)
        h6 == set_size(h5, this, size)
    IN  set_type(h6, this, ALLOCATED)

split(h, this, size) ==
    LET new_mcb == this + size
        h1 == set_next(h, new_mcb, next(h, this))
        h2 == set_prev(h1, new_mcb, this)
        h3 == set_size(h2, new_mcb, ts_size(h2, this) - size)
        h4 == set_type(h3, new_mcb, FREE)
        \* Reinit current MCB
        h5 == set_next(h4, this, new_mcb)
        h6 == set_size(h5, this, size)
        h7 == set_type(h6, this, ALLOCATED)
    IN  IF next(h7, new_mcb) # h7.start
        THEN set_prev(h7, next(h7, new_mcb), new_mcb)
        ELSE h7

\* --------------------------------------------- mcb::merge_with_next()
\* merge_with_next() that joins the chunks without adding the sizes
merge_with_next_mutant(h, this) ==
    LET other == next(h, this)
        other2 == next(h, other)
        h2 == set_next(h, this, other2)
    IN  IF other2 # h2.start
        THEN set_prev(h2, other2, this)
        ELSE h2

merge_with_next(h, this) ==
    LET other == next(h, this)
        h1 == set_size(h, this, ts_size(h, this) + ts_size(h, other))
        other2 == next(h1, other)
        h2 == set_next(h1, this, other2)
    IN  IF other2 # h2.start
        THEN set_prev(h2, other2, this)
        ELSE h2

\* ------------------------------------------------------------- free()
\* the two early returns of free(): the pointer itself, then the crosscheck
free_ignores(p) == p = NULL \/ p % HEAP_ALIGN # 0

\* the crosscheck without its lower bound on the pointer
free_crosscheck_fails_mutant(h, p) ==
    LET tptr == p - MCB_SIZE
        xptr == prev(h, tptr)
    IN  xptr # tptr /\ next(h, xptr) # tptr

\* the crosscheck reduced to its test against start
free_crosscheck_start_only_mutant(h, p) == ULess(p, h.start)

free_crosscheck_fails(h, p) ==
    LET tptr == p - MCB_SIZE
        xptr == prev(h, tptr)
    IN  (xptr # tptr /\ next(h, xptr) # tptr) \/ ULess(p, h.start)

free_rejects(h, p) == free_ignores(p) \/ free_crosscheck_fails(h, p)

\* free() that does not look at the previous chunk
free_valid_mutant(h, tptr) ==
    LET h1 == set_type(h, tptr, FREE)
        x1 == next(h1, tptr)
        h2 == IF ts_type(h1, x1) = FREE /\ x1 # h1.start
              THEN merge_with_next(h1, tptr)
              ELSE h1
    IN  IF ULess(tptr, h2.freemem) THEN [h2 EXCEPT !.freemem = tptr] ELSE h2

\* free() that leaves freemem as it is
free_valid_hint_mutant(h, tptr) ==
    LET h1 == set_type(h, tptr, FREE)
        x1 == next(h1, tptr)
        h2 == IF ts_type(h1, x1) = FREE /\ x1 # h1.start
              THEN merge_with_next(h1, tptr)
              ELSE h1
        x2 == prev(h2, tptr)
        back == ts_type(h2, x2) = FREE /\ tptr # h2.start
    IN  IF back THEN merge_with_next(h2, x2) ELSE h2

\* the part of free() after "Valid pointer present"
free_valid(h, tptr) ==
    LET h1 == set_type(h, tptr, FREE)
        x1 == next(h1, tptr)
        h2 == IF ts_type(h1, x1) = FREE /\ x1 # h1.start
              THEN merge_with_next(h1, tptr)
              ELSE h1
        x2 == prev(h2, tptr)
        back == ts_type(h2, x2) = FREE /\ tptr # h2.start
        h3 == IF back THEN merge_with_next(h2, x2) ELSE h2
        t3 == IF back THEN x2 ELSE tptr
    IN  IF ULess(t3, h3.freemem) THEN [h3 EXCEPT !.freemem = t3] ELSE h3

free(h, p) ==
    IF free_ignores(p) THEN h
    ELSE IF free_crosscheck_fails(h, p) THEN h
    ELSE free_valid(h, p - MCB_SIZE)

\* ----------------------------------------------------------- malloc()
\* the rounding without the header's size
round_up_mutant(n) ==
    LET x == n + (HEAP_ALIGN - 1)
    IN  x - (x % HEAP_ALIGN)

\* the rounding that adds a whole alignment unit
round_up_over_mutant(n) ==
    LET x == n + MCB_SIZE + HEAP_ALIGN
    IN  x - (x % HEAP_ALIGN)

\* size = (size + sizeof(mcb) + (HEAP_ALIGN - 1)) & ~(HEAP_ALIGN - 1)
round_up(n) ==
    LET x == n + MCB_SIZE + (HEAP_ALIGN - 1)
    IN  x - (x % HEAP_ALIGN)

\* the test with an upper limit of size + sizeof(mcb)
exact_fit_mutant(h, tptr, size) ==
    /\ ULeq(size, ts_size(h, tptr))
    /\ ULeq(ts_size(h, tptr), size + MCB_SIZE)

\* tptr->ts.size >= size && tptr->ts.size <= size + sizeof(mcb) + HEAP_ALIGN
exact_fit(h, tptr, size) ==
    /\ ULeq(size, ts_size(h, tptr))
    /\ ULeq(ts_size(h, tptr), size + MCB_SIZE + HEAP_ALIGN)

\* The for(;;) loop of malloc(), one iteration per call, from the loop's
\* variables to the values at its break.  steps counts the iterations left
\* before the model gives the scan up as endless (ScanLimit below).
RECURSIVE scan(_, _, _, _, _, _)
scan(h, size, tptr, xptr, free_cnt, steps) ==
    LET isfree == ts_type(h, tptr) = FREE
        cnt1 == IF isfree /\ ~USE_FULL_SCAN THEN free_cnt + 1 ELSE free_cnt
    IN
    IF steps = 0
    THEN [heap |-> h, Allocated |-> NULL, tptr |-> tptr, free_cnt |-> free_cnt,
          ended |-> FALSE, how |-> "endless"]
    ELSE IF isfree /\ exact_fit(h, tptr, size)
    THEN [heap |-> set_type(h, tptr, ALLOCATED), Allocated |-> pool(tptr),
          tptr |-> tptr,
          free_cnt |-> IF USE_FULL_SCAN THEN cnt1 + 1 ELSE cnt1,
          ended |-> TRUE, how |-> "exact fit"]
    ELSE IF isfree /\ ~USE_FULL_SCAN /\ ULeq(size, ts_size(h, tptr))
    THEN [heap |-> split(h, tptr, size), Allocated |-> pool(tptr),
          tptr |-> tptr, free_cnt |-> cnt1, ended |-> TRUE, how |-> "split"]
    ELSE
    LET seen == isfree /\ USE_FULL_SCAN /\ xptr = NULL
        xptr1 == IF seen /\ ULeq(size, ts_size(h, tptr)) THEN tptr ELSE xptr
        cnt2 == IF seen THEN cnt1 + 1 ELSE cnt1
        tptr1 == next(h, tptr)
    IN
    IF tptr1 = h.start
    THEN IF USE_FULL_SCAN /\ xptr1 # NULL
         THEN [heap |-> split(h, xptr1, size), Allocated |-> pool(xptr1),
               tptr |-> xptr1, free_cnt |-> cnt2, ended |-> TRUE, how |-> "split"]
         ELSE [heap |-> h, Allocated |-> NULL, tptr |-> tptr1,
               free_cnt |-> cnt2, ended |-> TRUE, how |-> "no memory"]
    ELSE scan(h, size, tptr1, xptr1, cnt2, steps - 1)

\* more iterations than the pool has room for headers: a scan of a circular
\* list of chunks inside the pool ends before
ScanLimit(h) == Cardinality(DOMAIN h.mem) + 1

\* malloc() that moves the hint without looking at Allocated
malloc_null_hint_mutant(h, n) ==
    LET size == round_up(n)
        r == scan(h, size, h.freemem, NULL, 0, ScanLimit(h))
        h1 == IF r.free_cnt = 1
              THEN [r.heap EXCEPT !.freemem = next(r.heap, r.tptr)]
              ELSE r.heap
    IN  [heap |-> h1, Allocated |-> r.Allocated, ended |-> r.ended,
         how |-> r.how, free_cnt |-> r.free_cnt]

\* malloc() that moves the hint after every allocation
malloc_always_hint_mutant(h, n) ==
    LET size == round_up(n)
        r == scan(h, size, h.freemem, NULL, 0, ScanLimit(h))
        h1 == IF r.Allocated # NULL
              THEN [r.heap EXCEPT !.freemem = next(r.heap, r.tptr)]
              ELSE r.heap
    IN  [heap |-> h1, Allocated |-> r.Allocated, ended |-> r.ended,
         how |-> r.how, free_cnt |-> r.free_cnt]

\* malloc(): the heap after the call, the pointer returned, and whether the
\* loop ended
malloc(h, n) ==
    LET size == round_up(n)
        r == scan(h, size, h.freemem, NULL, 0, ScanLimit(h))
        h1 == IF r.free_cnt = 1 /\ r.Allocated # NULL
              THEN [r.heap EXCEPT !.freemem = next(r.heap, r.tptr)]
              ELSE r.heap
    IN  [heap |-> h1, Allocated |-> r.Allocated, ended |-> r.ended,
         how |-> r.how, free_cnt |-> r.free_cnt]

\* -------------------------------------------------------------- add()
\* xptr is the new region's header, tptr the chunk at the hint
add(h, pool_, size) ==
    LET xptr == pool_
        tptr == h.freemem
        h1 == set_next(h, xptr, tptr)
        h2 == set_prev(h1, xptr, xptr)
        h3 == set_size(h2, xptr, size - MCB_SIZE)
        h4 == set_type(h3, xptr, FREE)
    IN  set_next(h4, tptr, xptr)

\* ------------------------------------------------------------- info()
\* the loop with pInfo->Size = in place of pInfo->Size +=
RECURSIVE info_loop_mutant(_, _, _, _)
info_loop_mutant(h, pBlock, Result, steps) ==
    LET isfree == ts_type(h, pBlock) = FREE
        pInfo == IF isfree THEN Result.Free ELSE Result.Used
        upd == [Blocks |-> pInfo.Blocks + 1,
                Block_max_size |-> IF pInfo.Block_max_size < ts_size(h, pBlock)
                                   THEN ts_size(h, pBlock)
                                   ELSE pInfo.Block_max_size,
                Size |-> ts_size(h, pBlock)]
        Result1 == IF isfree THEN [Result EXCEPT !.Free = upd]
                   ELSE [Result EXCEPT !.Used = upd]
    IN  IF steps = 0 THEN Result
        ELSE IF next(h, pBlock) = h.start THEN Result1
        ELSE info_loop_mutant(h, next(h, pBlock), Result1, steps - 1)

\* one pass of the do ... while(pBlock != start) loop per call
RECURSIVE info_loop(_, _, _, _)
info_loop(h, pBlock, Result, steps) ==
    LET isfree == ts_type(h, pBlock) = FREE
        pInfo == IF isfree THEN Result.Free ELSE Result.Used
        upd == [Blocks |-> pInfo.Blocks + 1,
                Block_max_size |-> IF pInfo.Block_max_size < ts_size(h, pBlock)
                                   THEN ts_size(h, pBlock)
                                   ELSE pInfo.Block_max_size,
                Size |-> pInfo.Size + ts_size(h, pBlock)]
        Result1 == IF isfree THEN [Result EXCEPT !.Free = upd]
                   ELSE [Result EXCEPT !.Used = upd]
    IN  IF steps = 0 THEN Result
        ELSE IF next(h, pBlock) = h.start THEN Result1
        ELSE info_loop(h, next(h, pBlock), Result1, steps - 1)

info(h) ==
    LET zero == [Blocks |-> 0, Block_max_size |-> 0, Size |-> 0]
    IN  info_loop(h, h.freemem, [Used |-> zero, Free |-> zero], ScanLimit(h))

\* ------------------------------------------------------- the chunk list
\* The chunks met from start along next, until next is start again; given up
\* after more chunks than the pool has room for (the list is then no circle
\* through start).
RECURSIVE walk(_, _, _)
walk(h, a, k) ==
    IF k = 0 THEN <<>>
    ELSE IF next(h, a) = h.start THEN <<a>>
    ELSE <<a>> \o walk(h, next(h, a), k - 1)

Chunks(h) == walk(h, h.start, ScanLimit(h))

ChunkSet(h) ==
    LET cs == Chunks(h)
    IN  {cs[i] : i \in 1..Len(cs)}

\* Between calls the model knows the headers of the list and nothing else.
Forget(h) ==
    LET hdr == UNION {McbWords(c) : c \in ChunkSet(h)}
    IN  [h EXCEPT !.mem = [a \in DOMAIN h.mem |->
                              IF a \in hdr THEN h.mem[a] ELSE Junk]]

\* ---------------------------------------------------- calls in the model
H == Heap(mem, start, freemem, 0)

\* the same heap, with w what a read of an unknown word yields
HW(w) == Heap(mem, start, freemem, w)

\* Every word free(p) reads is one the model knows, and every word it writes
\* is in the pool.  The crosscheck reads tptr->prev and, unless that is tptr
\* itself, xptr->next; the rest reads and writes the headers of tptr, its next
\* and its prev, and the prev field of the chunk after a merged one.
free_reads_known(h, p) ==
    LET tptr == p - MCB_SIZE
        xptr == prev(h, tptr)
        h1 == set_type(h, tptr, FREE)
        x1 == next(h1, tptr)
        fwd == ts_type(h1, x1) = FREE /\ x1 # h1.start
        h2 == IF fwd THEN merge_with_next(h1, tptr) ELSE h1
        x2 == prev(h2, tptr)
        back == ts_type(h2, x2) = FREE /\ tptr # h2.start
    IN  /\ Known(h, tptr + PTR_SIZE)
        /\ xptr # tptr => Known(h, xptr)
        /\ ~free_crosscheck_fails(h, p) =>
              /\ McbKnown(h, tptr)
              /\ McbKnown(h, x1)
              /\ fwd /\ next(h1, x1) # h.start => McbKnown(h, next(h1, x1))
              /\ McbKnown(h, x2)
              /\ back => /\ McbKnown(h, next(h2, x2))
                         /\ next(h2, next(h2, x2)) # h.start
                                => McbKnown(h, next(h2, next(h2, x2)))

\* free() is called with a pointer on which what it does is decided by what
\* the model knows: one it returns on at once, one below start (rejected
\* whatever the reads below the pool yield), or one for which it reads known
\* words only.
free_defined(h, p) ==
    \/ free_ignores(p)
    \/ ULess(p, h.start)
    \/ free_reads_known(h, p)
\* what free(p) does: why it returns early, or which merges it makes
free_outcome(h, p) ==
    LET tptr == p - MCB_SIZE
        h1 == set_type(h, tptr, FREE)
        x1 == next(h1, tptr)
        fwd == ts_type(h1, x1) = FREE /\ x1 # h1.start
        h2 == IF fwd THEN merge_with_next(h1, tptr) ELSE h1
        back == ts_type(h2, prev(h2, tptr)) = FREE /\ tptr # h2.start
    IN  IF p = NULL THEN "null"
        ELSE IF p % HEAP_ALIGN # 0 THEN "misaligned"
        ELSE IF free_crosscheck_fails(h, p)
             THEN (IF ULess(p, h.start) THEN "below start" ELSE "crosscheck")
        ELSE IF fwd /\ back THEN "freed, merged both"
        ELSE IF fwd THEN "freed, merged next"
        ELSE IF back THEN "freed, merged prev"
        ELSE "freed"

Rejections == {"null", "misaligned", "below start", "crosscheck"}

LivePtrs == {l.ptr : l \in live}

\* the sizes malloc() is called with: the multiples of the alignment unit and
\* the sizes one byte above them, and the size that fills a fresh pool
Requests == {n \in 0..MaxRequest : n % HEAP_ALIGN \in {0, 1}}
                \cup {PoolBytes - 2 * MCB_SIZE}

\* the pointers free() is called with: null, every aligned address from below
\* the pool to beyond it, and the addresses 1..3 bytes into a word
AlignedArgs == {PoolBase + HEAP_ALIGN * i : i \in (0 - 6)..(PoolWords + 3)}
FreeArgs == {NULL} \cup AlignedArgs
               \cup {p + k : p \in LivePtrs \cup {PoolBase}, k \in 1..(HEAP_ALIGN - 1)}

\* what a read outside the pool may yield: only whether it equals tptr matters
\* to free()
WildValues(p) ==
    IF free_ignores(p) \/ free_reads_known(H, p) THEN {0} ELSE {0, p - MCB_SIZE}

Init ==
    LET h == heap_ctor(PoolBase, PoolBytes)
    IN  /\ mem = Forget(h).mem
        /\ start = h.start
        /\ freemem = h.freemem
        /\ live = {}
        /\ last = "init"
        /\ pc = [t \in Threads |-> Idle]
        /\ lock = 0
        /\ ret = [op |-> "none", locks |-> 0, unlocks |-> 0]
        /\ calls = 0

Malloc(n) ==
    LET r == malloc(H, n)
    IN  /\ r.ended
        /\ mem' = Forget(r.heap).mem
        /\ start' = r.heap.start
        /\ freemem' = r.heap.freemem
        /\ live' = IF r.Allocated # NULL
                   THEN live \cup {[ptr |-> r.Allocated, n |-> n]}
                   ELSE live
        /\ last' = r.how
        /\ UNCHANGED callers

Free(p, w) ==
    LET h == HW(w)
        r == free(h, p)
    IN  /\ free_defined(h, p)
        /\ mem' = Forget(r).mem
        /\ start' = r.start
        /\ freemem' = r.freemem
        /\ live' = {l \in live : l.ptr # p}
        /\ last' = free_outcome(h, p)
        /\ UNCHANGED callers

\* info(): its loop ends, having counted a block; it has no assignment to a
\* chunk or to a heap descriptor
Info ==
    /\ info(H).Free.Blocks + info(H).Used.Blocks > 0
    /\ last' = "info"
    /\ UNCHANGED <<mem, start, freemem, live>>
    /\ UNCHANGED callers

Next ==
    \/ \E n \in Requests : Malloc(n)
    \/ \E p \in FreeArgs : \E w \in WildValues(p) : Free(p, w)
    \/ Info

Spec == Init /\ [][Next]_vars

\* ------------------------------------------- the calls, with add() as well
\* the region add() is given: ExtWords ints beyond the pool, apart from it
ExtBase == PoolEnd + 2 * HEAP_ALIGN
ExtBytes == ExtWords * HEAP_ALIGN
ExtAddrs == {ExtBase + HEAP_ALIGN * i : i \in 0..(ExtWords - 1)}

\* the heap with the words of the region, of unknown contents, beside the pool
Attach(h) ==
    [h EXCEPT !.mem = [a \in DOMAIN h.mem \cup ExtAddrs |->
                          IF a \in DOMAIN h.mem THEN h.mem[a] ELSE Junk]]

\* add() is called once, with the region
Add ==
    LET r == add(Attach(H), ExtBase, ExtBytes)
    IN  /\ DOMAIN mem = PoolAddrs
        /\ mem' = Forget(r).mem
        /\ start' = r.start
        /\ freemem' = r.freemem
        /\ live' = live
        /\ last' = "add"
        /\ UNCHANGED callers

\* the calls of SpecExtend: malloc() of the least size, free() of null and of
\* the pointers malloc() returned, and add()
ExtRequests == {0}

\* After add() a merge may join chunks that are not neighbours, and the size
\* fields then grow with every merge.  SpecExtend follows the heap while no
\* size field exceeds the memory the heap was given.
SizesWithinMemory(h) ==
    \A c \in ChunkSet(h) : ts_size(h, c) <= PoolBytes + ExtBytes

MallocExt(n) == SizesWithinMemory(H) /\ Malloc(n)

FreeExt(p) == SizesWithinMemory(H) /\ Free(p, 0)

NextExtend ==
    \/ \E n \in ExtRequests : MallocExt(n)
    \/ \E p \in LivePtrs \cup {NULL} : FreeExt(p)
    \/ Add

SpecExtend == Init /\ [][NextExtend]_vars

\* ------------------------------------------------ a pool of more chunks
\* SpecScan: a larger pool, with malloc() of the least and the largest size
\* and free() of the pointers malloc() returned.
ScanBytes == ScanWords * HEAP_ALIGN
ScanEnd == PoolBase + ScanBytes
ScanRequests == {0, MaxRequest}

InitScan ==
    LET h == heap_ctor(PoolBase, ScanBytes)
    IN  /\ mem = Forget(h).mem
        /\ start = h.start
        /\ freemem = h.freemem
        /\ live = {}
        /\ last = "init"
        /\ pc = [t \in Threads |-> Idle]
        /\ lock = 0
        /\ ret = [op |-> "none", locks |-> 0, unlocks |-> 0]
        /\ calls = 0

NextScan ==
    \/ \E n \in ScanRequests : Malloc(n)
    \/ \E p \in LivePtrs : Free(p, 0)

SpecScan == InitScan /\ [][NextScan]_vars

\* --------------------------------------------------- concurrent callers
\* Each caller makes one call at a time, in steps: the call, the construction
\* of the scope_guard (or the lack of one) before the first access to the
\* list, and the rest of the function up to its return, destructor included.
\* The accesses of one call to the list are one step; a caller at "list" is
\* between its first and its last access.

At(t, op, at) == pc[t].op = op /\ pc[t].at = at

Enter(t, locks) == [pc EXCEPT ![t].at = "list", ![t].locks = locks]

Return(t, unlocks) ==
    /\ pc' = [pc EXCEPT ![t] = Idle]
    /\ ret' = [op |-> pc[t].op, locks |-> pc[t].locks, unlocks |-> unlocks]

\* a caller calls malloc(), free() with null or with a pointer it holds (from
\* then on no other caller has it), info(), or add() with the region
Call(t, op, arg) ==
    /\ pc[t] = Idle
    /\ calls < MaxCalls
    /\ \/ op = "malloc" /\ arg \in ExtRequests
       \/ op = "free" /\ arg \in LivePtrs \cup {NULL}
       \/ op = "info" /\ arg = 0
       \/ /\ op = "add" /\ arg = ExtBase
          /\ DOMAIN mem = PoolAddrs
          /\ \A u \in Threads : pc[u].op # "add"
    /\ pc' = [pc EXCEPT ![t] = [op |-> op, arg |-> arg, at |-> "entry", locks |-> 0]]
    /\ live' = IF op = "free" THEN {l \in live : l.ptr # arg} ELSE live
    /\ calls' = calls + 1
    /\ UNCHANGED <<mem, start, freemem, last, lock, ret>>

\* free(): if( !pool || misaligned ) return, before the scope_guard
FreeIgnores(t) ==
    /\ At(t, "free", "entry")
    /\ free_ignores(pc[t].arg)
    /\ Return(t, 0)
    /\ last' = free_outcome(H, pc[t].arg)
    /\ UNCHANGED <<mem, start, freemem, live, lock, calls>>

\* free() and info(): scope_guard<guard> ScopeGuard(Guard) calls Guard.lock()
LockGuard(t) ==
    /\ At(t, "free", "entry") \/ At(t, "info", "entry")
    /\ pc[t].op = "free" => ~free_ignores(pc[t].arg)
    /\ lock = 0
    /\ lock' = t
    /\ pc' = Enter(t, 1)
    /\ UNCHANGED <<mem, start, freemem, live, last, ret, calls>>

\* malloc(): scope_guard<guard> Guard(Guard) names the local object in its own
\* initializer, so the object is copied from itself and the constructor that
\* calls lock() does not run.  add() has no scope_guard.
EnterUnlocked(t) ==
    /\ At(t, "malloc", "entry") \/ At(t, "add", "entry")
    /\ pc' = Enter(t, 0)
    /\ UNCHANGED <<mem, start, freemem, live, last, lock, ret, calls>>

\* The destructor of malloc()'s scope_guard calls unlock() through a reference
\* that was never set: it unlocks heap::Guard (hit; the stack slot may hold
\* what an earlier scope_guard left there) or some other object.
MallocReturns(t, hit) ==
    LET r == malloc(H, pc[t].arg)
    IN  /\ At(t, "malloc", "list")
        /\ r.ended
        /\ mem' = Forget(r.heap).mem
        /\ start' = r.heap.start
        /\ freemem' = r.heap.freemem
        /\ live' = IF r.Allocated # NULL
                   THEN live \cup {[ptr |-> r.Allocated, n |-> pc[t].arg]}
                   ELSE live
        /\ last' = r.how
        /\ lock' = IF hit THEN 0 ELSE lock
        /\ Return(t, IF hit THEN 1 ELSE 0)
        /\ UNCHANGED calls

FreeReturns(t) ==
    LET r == free(H, pc[t].arg)
    IN  /\ At(t, "free", "list")
        /\ free_defined(H, pc[t].arg)
        /\ mem' = Forget(r).mem
        /\ start' = r.start
        /\ freemem' = r.freemem
        /\ last' = free_outcome(H, pc[t].arg)
        /\ lock' = 0
        /\ Return(t, 1)
        /\ UNCHANGED <<live, calls>>

InfoReturns(t) ==
    /\ At(t, "info", "list")
    /\ info(H).Free.Blocks + info(H).Used.Blocks > 0
    /\ last' = "info"
    /\ lock' = 0
    /\ Return(t, 1)
    /\ UNCHANGED <<mem, start, freemem, live, calls>>

AddReturns(t) ==
    LET r == add(Attach(H), pc[t].arg, ExtBytes)
    IN  /\ At(t, "add", "list")
        /\ mem' = Forget(r).mem
        /\ start' = r.start
        /\ freemem' = r.freemem
        /\ last' = "add"
        /\ Return(t, 0)
        /\ UNCHANGED <<live, lock, calls>>

ThreadOps == {"malloc", "free", "info", "add"}
ThreadArgs == ExtRequests \cup LivePtrs \cup {NULL, ExtBase}

NextThreads ==
    \E t \in Threads :
        \/ \E op \in ThreadOps : \E arg \in ThreadArgs : Call(t, op, arg)
        \/ FreeIgnores(t)
        \/ LockGuard(t)
        \/ EnterUnlocked(t)
        \/ \E hit \in BOOLEAN : MallocReturns(t, hit)
        \/ FreeReturns(t)
        \/ InfoReturns(t)
        \/ AddReturns(t)

SpecThreads == Init /\ [][NextThreads]_vars

\* ---------------------------------------------------- views of the heap
\* the list as the program holds it: each chunk's address and header fields
Layout(h) ==
    LET cs == Chunks(h)
    IN  [i \in 1..Len(cs) |->
            [addr |-> cs[i], size |-> ts_size(h, cs[i]), type |-> ts_type(h, cs[i])]]

Links(h) ==
    LET cs == Chunks(h)
    IN  [i \in 1..Len(cs) |-> [next |-> next(h, cs[i]), prev |-> prev(h, cs[i])]]

\* two half-open byte ranges [a1, e1) and [a2, e2) share a byte
Overlap(a1, e1, a2, e2) == a1 < e1 /\ a2 < e2 /\ a1 < e2 /\ a2 < e1

RECURSIVE SumSeq(_)
SumSeq(q) == IF q = <<>> THEN 0 ELSE Head(q) + SumSeq(Tail(q))

\* ------------------------------------------------------------- claims

\* C1: the byte ranges [p, p+n) of any two live results of malloc(n) are
\* disjoint, lie inside the pool, and overlap the header of no chunk of the
\* list.
C1_LiveRangesDisjoint ==
    /\ \A a, b \in live :
          a # b => ~Overlap(a.ptr, a.ptr + a.n, b.ptr, b.ptr + b.n)
    /\ \A a \in live : PoolBase <= a.ptr /\ a.ptr + a.n <= PoolEnd
    /\ \A a \in live : \A c \in ChunkSet(H) :
          ~Overlap(a.ptr, a.ptr + a.n, c, c + MCB_SIZE)

\* three allocations of at least one byte are live, the last just made
C1_Witness ==
    /\ Cardinality({a \in live : a.n > 0}) >= 3
    /\ last \in {"split", "exact fit"}

\* C2: the list is circular and doubly linked: next from start visits every
\* chunk once and comes back to start, start.prev = start, and c.prev.next = c
\* for every other chunk c.
C2_CircularDoublyLinked ==
    LET cs == Chunks(H)
    IN  /\ Len(cs) >= 1
        /\ cs[1] = start
        /\ next(H, cs[Len(cs)]) = start
        /\ \A i, j \in 1..Len(cs) : i # j => cs[i] # cs[j]
        /\ \A i \in 1..Len(cs) : McbInPool(H, cs[i])
        /\ prev(H, start) = start
        /\ \A i \in 2..Len(cs) : /\ next(H, prev(H, cs[i])) = cs[i]
                                 /\ prev(H, cs[i]) = cs[i - 1]

\* a chunk in the middle of a list of four was just split off or merged
C2_Witness ==
    /\ Len(Chunks(H)) >= 4
    /\ last \in {"split", "freed, merged next", "freed, merged prev"}

\* C3: no Free chunk has a Free successor other than start.
C3_NoAdjacentFree ==
    \A c \in ChunkSet(H) :
        ts_type(H, c) = FREE /\ next(H, c) # start => ts_type(H, next(H, c)) # FREE

\* a release has just merged a chunk with both its neighbours
C3_Witness == last = "freed, merged both"

\* C4, as the claim states it: every size field is a multiple of the alignment
\* unit and the (header size + size field) of all chunks add up to the bytes
\* of the pool.
C4_SizeAccounting ==
    /\ \A c \in ChunkSet(H) : ts_size(H, c) % HEAP_ALIGN = 0
    /\ LET cs == Chunks(H)
       IN  SumSeq([i \in 1..Len(cs) |-> MCB_SIZE + ts_size(H, cs[i])]) = PoolBytes

\* C5: freemem refers to a chunk of the list.
C5_HintInList == freemem \in ChunkSet(H)

\* a release has just merged the freed chunk into the one before it, and the
\* hint is not start
C5_Witness ==
    /\ last \in {"freed, merged prev", "freed, merged both"}
    /\ freemem # start

\* C6: a successful malloc(n) followed at once by free of its result restores
\* the chunk layout: the same chunks at the same addresses, with the same
\* sizes and the same Free/Allocated states.
C6_RoundTrip ==
    \A n \in Requests :
        LET r == malloc(H, n)
        IN  r.Allocated # NULL =>
                Layout(free(r.heap, r.Allocated)) = Layout(H)

\* with an allocation live, a malloc that splits a chunk and the free that
\* merges it again
C6_Witness ==
    /\ live # {}
    /\ \E n \in Requests :
          LET r == malloc(H, n)
          IN  /\ r.how = "split"
              /\ free_outcome(r.heap, r.Allocated) = "freed, merged next"
              /\ Layout(r.heap) # Layout(H)
              /\ Layout(free(r.heap, r.Allocated)) = Layout(H)

\* C7: on a pool whose single chunk is Free with usable capacity C,
\* malloc(C - sizeof(mcb)) succeeds; and while that allocation is the one live
\* result, malloc(1) returns null and changes nothing.
Capacity == PoolBytes - MCB_SIZE

C7_ExhaustionBoundary ==
    /\ (Len(Chunks(H)) = 1 /\ ts_type(H, start) = FREE) =>
            malloc(H, Capacity - MCB_SIZE).Allocated = pool(start)
    /\ live = {[ptr |-> pool(start), n |-> Capacity - MCB_SIZE]} =>
            /\ malloc(H, 1).Allocated = NULL
            /\ malloc(H, 1).heap = H

\* malloc(C - sizeof(mcb)) has succeeded and a malloc after it has failed
C7_Witness ==
    /\ live = {[ptr |-> pool(start), n |-> Capacity - MCB_SIZE]}
    /\ last = "no memory"

\* Three address-adjacent Allocated chunks, the first the i-th of the list,
\* with Allocated chunks or the ends of the list around them.
Triple(h, i) ==
    LET cs == Chunks(h)
    IN  /\ i + 2 <= Len(cs)
        /\ \A k \in i..(i + 2) : ts_type(h, cs[k]) = ALLOCATED
        /\ i > 1 => ts_type(h, cs[i - 1]) = ALLOCATED
        /\ i + 2 < Len(cs) => ts_type(h, cs[i + 3]) = ALLOCATED

Triples(h) == {i \in 1..(Len(Chunks(h)) - 2) : Triple(h, i)}

\* free() of the usable areas of the chunks x, y, z, in this order
free3(h, x, y, z) == free(free(free(h, pool(x)), pool(y)), pool(z))

Orders(a, b, c) ==
    {<<a, b, c>>, <<a, c, b>>, <<b, a, c>>, <<b, c, a>>, <<c, a, b>>, <<c, b, a>>}

\* the state of the heap: the list with its links, and the hint
View(h) == [layout |-> Layout(h), links |-> Links(h), freemem |-> h.freemem]

\* C8: releasing three such chunks in any of the 6 orders ends in the same
\* state: one Free chunk at the address of the first, reaching to the chunk
\* that followed the third, and two chunks fewer in the list.
C8_CoalescingClosure ==
    \A i \in Triples(H) :
        LET cs == Chunks(H)
            a == cs[i]
            b == cs[i + 1]
            c == cs[i + 2]
            ends == {free3(H, o[1], o[2], o[3]) : o \in Orders(a, b, c)}
        IN  /\ Cardinality({View(e) : e \in ends}) = 1
            /\ \A e \in ends :
                  /\ a \in ChunkSet(e)
                  /\ b \notin ChunkSet(e)
                  /\ c \notin ChunkSet(e)
                  /\ ts_type(e, a) = FREE
                  /\ next(e, a) = next(H, c)
                  /\ Len(Chunks(e)) = Len(Chunks(H)) - 2

\* three such chunks with an Allocated chunk beside them, merged into one by
\* the three releases
C8_Witness ==
    /\ Len(Chunks(H)) >= 4
    /\ \E i \in Triples(H) :
          LET cs == Chunks(H)
              e == free3(H, cs[i + 1], cs[i + 2], cs[i])
          IN  ts_type(e, cs[i]) = FREE /\ Len(Chunks(e)) = Len(cs) - 2

\* C9, as the claim states it: the size field of the Free chunk that the three
\* releases leave is s1 + s2 + s3 + 2 * sizeof(mcb), s1, s2, s3 the size fields
\* of the three chunks.
C9_MergedSizeAddsHeaders ==
    \A i \in Triples(H) :
        LET cs == Chunks(H)
            e == free3(H, cs[i], cs[i + 1], cs[i + 2])
        IN  ts_size(e, cs[i]) = ts_size(H, cs[i]) + ts_size(H, cs[i + 1])
                                + ts_size(H, cs[i + 2]) + 2 * MCB_SIZE

\* The pointers the claim names: null, not aligned, a candidate header whose
\* back-link check fails (prev is not the header itself and prev.next is not
\* the header), or a pointer below start.
Invalid(h, p) ==
    \/ p = NULL
    \/ p % HEAP_ALIGN # 0
    \/ LET cand == p - MCB_SIZE
       IN  prev(h, cand) # cand /\ next(h, prev(h, cand)) # cand
    \/ ULess(p, h.start)

\* C10: free() of such a pointer changes nothing: no word of the pool and not
\* the hint, whatever the words the model does not know hold; info() returns
\* the same before and after.
C10_InvalidFreeNoOp ==
    \A p \in FreeArgs : \A w \in {0, p - MCB_SIZE} :
        Invalid(HW(w), p) =>
            /\ free(HW(w), p) = HW(w)
            /\ info(free(HW(w), p)) = info(HW(w))

\* free() has just returned on a failed crosscheck, with allocations live
C10_Witness ==
    /\ last = "crosscheck"
    /\ Len(Chunks(H)) >= 3
    /\ live # {}

\* what a walk of the whole list, from start back to start, counts for the
\* chunks of one type: summary::info
ClassStats(h, type) ==
    LET cs == Chunks(h)
        sizes == [i \in 1..Len(cs) |->
                    IF ts_type(h, cs[i]) = type THEN ts_size(h, cs[i]) ELSE 0]
        sel == {i \in 1..Len(cs) : ts_type(h, cs[i]) = type}
    IN  [Blocks |-> Cardinality(sel),
         Block_max_size |-> IF sel = {} THEN 0
                            ELSE CHOOSE m \in {sizes[i] : i \in sel} :
                                    \A i \in sel : sizes[i] <= m,
         Size |-> SumSeq(sizes)]

FreeChunks(h) == {c \in ChunkSet(h) : ts_type(h, c) = FREE}

\* C11: a malloc() that returns null leaves the heap as it was: every word of
\* the pool and the hint, and so what info() returns; malloc(2000) on a fresh
\* pool of 1024 bytes is such a call.
C11_FailedMallocNoChange ==
    /\ \A n \in Requests \cup {2 * PoolBytes} :
          LET r == malloc(H, n)
          IN  r.Allocated = NULL => r.heap = H /\ info(r.heap) = info(H)
    /\ last = "init" =>
          LET h == heap_ctor(PoolBase, 1024)
              r == malloc(h, 2000)
          IN  r.Allocated = NULL /\ r.heap = h /\ info(r.heap) = info(h)

\* a malloc() has just failed on a list with a Free chunk and allocations
C11_Witness ==
    /\ last = "no memory"
    /\ FreeChunks(H) # {}
    /\ Cardinality(live) >= 2

\* C12: malloc(n) returns null only if no Free chunk of the list, before or
\* after the hint, has a size field >= round_up(n).
C12_NullOnlyWhenNoChunkFits ==
    \A n \in Requests :
        malloc(H, n).Allocated = NULL =>
            \A c \in FreeChunks(H) : ULess(ts_size(H, c), round_up(n))

\* a malloc() has just failed with the hint not at start and chunks freed
\* before it
C12_Witness ==
    /\ last = "no memory"
    /\ freemem # start
    /\ FreeChunks(H) # {}
    /\ Len(Chunks(H)) >= 3

\* C13, as the claim states it: info() reports for the Allocated chunks their
\* number, total size and largest size over the whole list; after one malloc
\* on a fresh pool, one Allocated and one Free chunk.
C13_SummaryAllocated ==
    /\ info(H).Used = ClassStats(H, ALLOCATED)
    /\ (Cardinality(live) = 1 /\ Len(Chunks(H)) = 2) =>
          info(H).Used.Blocks = 1 /\ info(H).Free.Blocks = 1

\* C14: info() reports for the Free chunks their number, total size and
\* largest size over the whole list, and a call of info() changes no word of
\* the pool and neither heap descriptor.
C14_SummaryFree ==
    /\ [](info(H).Free = ClassStats(H, FREE))
    /\ [][Info => mem' = mem /\ start' = start /\ freemem' = freemem]_vars

\* info() has been called with two Free chunks in the list
C14_Witness ==
    /\ last = "info"
    /\ Cardinality(FreeChunks(H)) >= 2

\* C17, as the claim states it: after any calls of malloc(), free() and add(),
\* the scan of a malloc() call ends, with an allocation or at start.
C17_MallocTerminates ==
    \A n \in Requests : malloc(H, n).ended

\* the list is a circle from start, through distinct chunks
Circular(h) ==
    LET cs == Chunks(h)
    IN  /\ next(h, cs[Len(cs)]) = h.start
        /\ \A i, j \in 1..Len(cs) : i # j => cs[i] # cs[j]

\* C18, as the claim states it: a call of add() leaves start as it is, keeps
\* every chunk of the list in the list, puts the new chunk in it, and the list
\* is a circle through start with c.prev.next = c for every chunk c but start.
C18_AddKeepsList ==
    DOMAIN mem = PoolAddrs =>
        LET r == add(Attach(H), ExtBase, ExtBytes)
        IN  /\ r.start = start
            /\ ChunkSet(H) \subseteq ChunkSet(r)
            /\ ExtBase \in ChunkSet(r)
            /\ Circular(r)
            /\ \A c \in ChunkSet(r) \ {r.start} : next(r, prev(r, c)) = c

\* the callers between their first and their last access to the list
InList == {t \in Threads : pc[t].at = "list"}

\* C15, as the claim states it: at most one caller at a time is reading or
\* writing the list or the hint, each holding the lock while it does.
C15_OneCallerInList ==
    /\ Cardinality(InList) <= 1
    /\ \A t \in InList : lock = t

\* C16, as the claim states it: a call of malloc(), of info(), or of free()
\* that got past the pointer check has made one lock() and one unlock() when
\* it returns, and with no caller in a call the lock is not held.
C16_LockReleased ==
    /\ ret.locks = ret.unlocks
    /\ ret.op \in {"malloc", "info"} => ret.locks = 1
    /\ (\A t \in Threads : pc[t] = Idle) => lock = 0

\* The requests whose size + sizeof(mcb) + (HEAP_ALIGN - 1) passes the top of
\* size_t (the words 2^32 - 15 .. 2^32 - 1, here -15 .. -1), and one whose
\* rounded size passes the 24 bits of ts.size.
OversizedRequests ==
    {0 - k : k \in 1..(MCB_SIZE + HEAP_ALIGN - 1)} \cup {SIZE_RANGE}

\* C19, as the claim states it: malloc() of such a size returns null.
C19_OversizedRequestFails ==
    \A n \in OversizedRequests : malloc(H, n).Allocated = NULL

\* the regions shorter than one header
SmallRegions == {sz \in 0..(MCB_SIZE - 1) : sz % HEAP_ALIGN = 0}

\* A heap on the first size_bytes bytes of the pool's memory as it is, before
\* the constructor calls init(): start and freemem at the region.
Region(size_bytes) ==
    Heap([a \in {PoolBase + HEAP_ALIGN * i :
                    i \in 0..((size_bytes \div HEAP_ALIGN) - 1)} |-> mem[a]],
         PoolBase, PoolBase, 0)

\* C20, as the claim states it: on a region shorter than one header init()
\* installs no chunk (it writes no word of the region), and on a region of
\* one header none for a length whose usable size passes the 24 bits of
\* ts.size.
C20_InitRejectsBadRegion ==
    /\ \A sz \in SmallRegions : init(Region(sz), PoolBase, sz) = Region(sz)
    /\ init(Region(MCB_SIZE), PoolBase, SIZE_RANGE + MCB_SIZE) = Region(MCB_SIZE)

\* ------------------------------------------------- the scan of malloc()
\* the chunks a scan meets, in its order: from the hint to the last chunk
ScanRange(h) == walk(h, h.freemem, ScanLimit(h))

Min(S) == CHOOSE m \in S : \A x \in S : m <= x

\* the places in the scan range of the Free chunks of size >= round_up(n) ...
Fits(h, n) ==
    LET sr == ScanRange(h)
    IN  {i \in 1..Len(sr) :
            ts_type(h, sr[i]) = FREE /\ ts_size(h, sr[i]) >= round_up(n)}

\* ... and of those of size <= round_up(n) + sizeof(mcb) + HEAP_ALIGN
Exacts(h, n) ==
    LET sr == ScanRange(h)
    IN  {i \in Fits(h, n) :
            ts_size(h, sr[i]) <= round_up(n) + MCB_SIZE + HEAP_ALIGN}

Sizes(h) ==
    LET cs == Chunks(h)
    IN  [i \in 1..Len(cs) |-> ts_size(h, cs[i])]

\* C21: when the scan of malloc(n) meets a Free chunk of a size in
\* [needed, needed + sizeof(mcb) + HEAP_ALIGN], it marks it Allocated and
\* returns its usable area; the chunks of the list and their size fields stay.
C21_ExactFitNoSplit ==
    \A n \in ScanRequests :
        Exacts(H, n) # {} =>
            LET c == ScanRange(H)[Min(Exacts(H, n))]
                r == malloc(H, n)
            IN  /\ r.Allocated = pool(c)
                /\ ts_type(r.heap, c) = ALLOCATED
                /\ Chunks(r.heap) = Chunks(H)
                /\ Sizes(r.heap) = Sizes(H)

\* a malloc() has just taken a chunk larger than the request needs, at the
\* upper end of the window, in a list of four chunks or more
C21_Witness ==
    /\ last = "exact fit"
    /\ Len(Chunks(H)) >= 4
    /\ \E l \in live :
          /\ l.n = 0
          /\ ts_size(H, l.ptr - MCB_SIZE) = round_up(0) + MCB_SIZE + HEAP_ALIGN

\* C22: with a Free chunk larger than the window before a Free chunk inside
\* it, malloc() takes the later chunk and leaves the earlier as it is; it
\* splits only when no chunk of the scan range is in the window, and then the
\* first chunk of size >= needed.
C22_BestCandidate ==
    \A n \in ScanRequests :
        LET sr == ScanRange(H)
            r == malloc(H, n)
        IN  /\ (Exacts(H, n) # {} /\ Min(Fits(H, n)) < Min(Exacts(H, n))) =>
                  LET cand == sr[Min(Fits(H, n))]
                  IN  /\ r.Allocated = pool(sr[Min(Exacts(H, n))])
                      /\ \A a \in McbWords(cand) : r.heap.mem[a] = mem[a]
                      /\ Len(Chunks(r.heap)) = Len(Chunks(H))
            /\ (Exacts(H, n) = {} /\ Fits(H, n) # {}) =>
                  /\ r.how = "split"
                  /\ r.Allocated = pool(sr[Min(Fits(H, n))])
                  /\ Len(Chunks(r.heap)) = Len(Chunks(H)) + 1
            /\ r.how = "split" => Exacts(H, n) = {}

\* the case of the claim: a larger Free chunk, then one in the window, and
\* malloc() takes the second
C22_Witness ==
    \E n \in ScanRequests :
        /\ Exacts(H, n) # {}
        /\ Min(Fits(H, n)) < Min(Exacts(H, n))
        /\ malloc(H, n).how = "exact fit"
        /\ malloc(H, n).Allocated = pool(ScanRange(H)[Min(Exacts(H, n))])

\* the Free chunks a scan for n inspects: those up to the chunk in the window
\* that ends it, or those of the whole scan range
Inspected(h, n) ==
    LET sr == ScanRange(h)
        upto == IF Exacts(h, n) # {} THEN Min(Exacts(h, n)) ELSE Len(sr)
    IN  {i \in 1..upto : ts_type(h, sr[i]) = FREE}

\* the hint after malloc(n), as a rule decides it: the successor of the chunk
\* allocated where the rule holds, and the hint as it was elsewhere
HintRule(n, holds) ==
    LET r == malloc(H, n)
    IN  r.heap.freemem =
            IF r.Allocated # NULL /\ holds
            THEN next(r.heap, r.Allocated - MCB_SIZE)
            ELSE freemem

\* C23, as the claim states it: a successful malloc() sets the hint to the
\* successor of the chunk it allocated if exactly one Free chunk was inspected
\* during its scan, and leaves the hint otherwise.
C23_HintIffOneInspected ==
    \A n \in ScanRequests :
        HintRule(n, Cardinality(Inspected(H, n)) = 1)

\* C23, amended: a successful malloc() sets the hint to the successor of the
\* chunk it allocated if that chunk is the first Free chunk of the scan range,
\* and leaves the hint otherwise; Free chunks met after the candidate do not
\* count.
C23_HintIffFirstFreeTaken ==
    \A n \in ScanRequests :
        LET sr == ScanRange(H)
            frees == {i \in 1..Len(sr) : ts_type(H, sr[i]) = FREE}
        IN  HintRule(n, frees # {}
                        /\ malloc(H, n).Allocated = pool(sr[Min(frees)]))

\* the case the two statements differ on: the first Free chunk is split, with
\* a second Free chunk, too small, later in the scan range
C23_Witness ==
    \E n \in ScanRequests :
        /\ malloc(H, n).how = "split"
        /\ Cardinality(Inspected(H, n)) >= 2
        /\ malloc(H, n).heap.freemem # freemem

\* ------------------------------------------------- the effect of free()
\* the neighbour free(p) merges the chunk of p with: its successor ...
FwdOf(h, tptr) ==
    LET x == next(h, tptr)
    IN  IF ts_type(h, x) = FREE /\ x # h.start THEN {x} ELSE {}

\* ... and its predecessor
BackOf(h, tptr) ==
    LET x == prev(h, tptr)
    IN  IF ts_type(h, x) = FREE /\ tptr # h.start THEN {x} ELSE {}

\* C24: an accepted free(p) leaves the hint at the lower of its old value and
\* the chunk that finally holds the freed memory, and writes nothing besides
\* the freed chunk, the chunks absorbed (one behind it at most, and itself
\* into one before it at most), the prev field of one successor, and the hint.
C24_FreeHintAndFrame ==
    \A l \in live :
        LET tptr == l.ptr - MCB_SIZE
            r == free(H, l.ptr)
            fwd == FwdOf(H, tptr)
            back == BackOf(H, tptr)
            final == IF back = {} THEN tptr ELSE Min(back)
            gone == fwd \cup (IF back = {} THEN {} ELSE {tptr})
            written == McbWords(tptr) \cup McbWords(final)
                         \cup {next(r, final) + PTR_SIZE}
        IN  /\ ~free_rejects(H, l.ptr)
            /\ r.freemem = Min({freemem, final})
            /\ r.start = start
            /\ ts_type(r, final) = FREE
            /\ ChunkSet(r) = ChunkSet(H) \ gone
            /\ \A a \in DOMAIN mem \ written : r.mem[a] = mem[a]

\* a free() that merges on both sides, and a free() that lowers the hint
C24_Witness ==
    /\ \E l \in live : free_outcome(H, l.ptr) = "freed, merged both"
    /\ \E l \in live : /\ free(H, l.ptr).freemem = l.ptr - MCB_SIZE
                        /\ l.ptr - MCB_SIZE < freemem

\* the region an address lies in: the pool or the memory passed to add()
SameRegion(a, b) == (a \in ExtAddrs) = (b \in ExtAddrs)

\* C25: after add(), free() of a pointer into the added region merges its
\* chunk only with Free neighbours that adjoin it in memory; it absorbs no
\* Allocated chunk and not the start chunk, and merges no chunks of two
\* regions.
C25_FreeStaysInRegion ==
    \A l \in live :
        (l.ptr \in ExtAddrs /\ ~free_rejects(H, l.ptr)) =>
            LET tptr == l.ptr - MCB_SIZE
                h1 == set_type(H, tptr, FREE)
                fwd == FwdOf(h1, tptr)
                h2 == IF fwd = {} THEN h1 ELSE merge_with_next(h1, tptr)
                back == BackOf(h2, tptr)
                \* <<the chunk merge_with_next() is called on, the chunk it
                \* takes in>> for each of the two merges
                merges == {<<tptr, x>> : x \in fwd}
                            \cup {<<x, next(h2, x)>> : x \in back}
            IN  \A mg \in merges :
                    /\ ts_type(h1, mg[2]) = FREE
                    /\ mg[2] # start
                    /\ mg[2] = mg[1] + ts_size(h1, mg[1])
                    /\ SameRegion(mg[1], mg[2])

\* C26: free(p) called twice in a row leaves the heap as one free(p) does,
\* whether the first call merged the chunk into its predecessor or not.
C26_FreeIdempotent ==
    \A l \in live :
        free(free(H, l.ptr), l.ptr) = free(H, l.ptr)

\* both cases: a pointer whose chunk the first free() merges into its
\* predecessor, so that the second call meets a stale header and returns at
\* the crosscheck; and one whose chunk stays in the list
C26_Witness ==
    /\ \E l \in live :
          /\ BackOf(H, l.ptr - MCB_SIZE) # {}
          /\ free(H, l.ptr) # H
          /\ free_crosscheck_fails(free(H, l.ptr), l.ptr)
    /\ \E l \in live :
          /\ free_outcome(H, l.ptr) \in {"freed", "freed, merged next"}
          /\ ~free_rejects(free(H, l.ptr), l.ptr)

\* ------------------------------------------------- implicit properties
\* the chunks before a in list order
Before(h, a) ==
    LET cs == Chunks(h)
    IN  {cs[i] : i \in {j \in 1..Len(cs) : \E k \in j+1..Len(cs) : cs[k] = a}}

\* C27: the hint is a chunk of the list and no Free chunk precedes it in
\* list order.
C27_NoFreeBeforeHint ==
    /\ freemem \in ChunkSet(H)
    /\ \A c \in Before(H, freemem) : ts_type(H, c) = ALLOCATED

\* the hint has moved off start and was lowered again by a free(): Allocated
\* chunks before it, a Free chunk at it, another Free chunk after it
C27_Witness ==
    /\ last \in {"freed", "freed, merged next", "freed, merged prev"}
    /\ Before(H, freemem) # {}
    /\ ts_type(H, freemem) = FREE
    /\ \E c \in ChunkSet(H) \ (Before(H, freemem) \cup {freemem}) :
          ts_type(H, c) = FREE

\* the first address after the memory the heap was constructed on
MemEnd(h) == PoolBase + HEAP_ALIGN * Cardinality(DOMAIN h.mem)

\* the address where the room of a chunk ends: the header of its successor,
\* or the end of the pool for the last chunk
RoomEnd(h, c) == IF next(h, c) = h.start THEN MemEnd(h) ELSE next(h, c)

====
